---- MODULE Spec2Model ----
(***************************************************************************)
(* A model of generate_gallery.py: the extractor that flattens a JSON      *)
(* document of categories into item records, the renderer that formats    *)
(* an item list into one HTML document and writes it, and main, which     *)
(* runs the first and then (for a non-empty list) the second.             *)
(*                                                                         *)
(* Text is a sequence of tokens.  A template literal of the source is the *)
(* sequence of its tokens (runs of whitespace and the style sheet are     *)
(* abbreviated), string concatenation is \o, and an interpolated value    *)
(* contributes its own tokens unchanged, as the f-strings of the source   *)
(* do: nothing is escaped.                                                *)
(***************************************************************************)
EXTENDS Integers, Sequences, FiniteSets, TLC

VARIABLES json_file,    \* the input file: absent, unreadable, or its JSON content
          output_file,  \* the output file: absent, or its content (a text)
          call,         \* the function that ran last
          arg,          \* the item list handed to generate_html by a direct call
          items,        \* the list extract_first_100_items returned
          status,       \* how the last call ended: "returned" or "raised"
          ops,          \* the file operations the last call attempted, in order
          stdout        \* the lines the last call printed

vars == <<json_file, output_file, call, arg, items, status, ops, stdout>>

(***************************************************************************)
(* Bounds.                                                                 *)
(***************************************************************************)
MaxList == 2      \* longest list under one category of an input document
MaxItems == 2     \* longest item list handed to generate_html directly

(***************************************************************************)
(* Python values as json.load builds them.                                 *)
(***************************************************************************)
PyStr(s) == [t |-> "str", s |-> s]
PyInt(n) == [t |-> "int", n |-> n]
PyList(a) == [t |-> "list", a |-> a]
\* a dict keeps its keys in insertion order: a sequence of <<key, value>>
PyDict(kv) == [t |-> "dict", kv |-> kv]

\* the keys of an element are compared with the literals 'name' and
\* 'filename' only and are kept as plain strings
HasKey(d, k) == \E i \in 1..Len(d.kv) : d.kv[i][1] = k
GetItem(d, k) == d.kv[CHOOSE i \in 1..Len(d.kv) : d.kv[i][1] = k][2]

(***************************************************************************)
(* The states of a file on disk.                                           *)
(***************************************************************************)
Missing == [st |-> "missing"]
Unreadable == [st |-> "denied"]
Content(c) == [st |-> "file", content |-> c]
\* the content of a file that is not JSON
InvalidJson == [t |-> "invalid"]

(***************************************************************************)
(* extract_first_100_items                                                 *)
(***************************************************************************)
Raised(e, acc) == [ok |-> FALSE, exc |-> e, all_items |-> acc]
Completed(acc) == [ok |-> TRUE, exc |-> "", all_items |-> acc]

\* a faulty variant of AppendItem: all_items.insert(0, ...) in place of append
AppendItemFront(acc, item, category) ==
    <<[name |-> GetItem(item, "name"),
       filename |-> GetItem(item, "filename"),
       category |-> category]>> \o acc

\* all_items.append({...}) for an element that has both keys
AppendItem(acc, item, category) ==
    Append(acc, [name |-> GetItem(item, "name"),
                 filename |-> GetItem(item, "filename"),
                 category |-> category])

\* the inner loop, from element i of the list a on; item['name'] is
\* evaluated before item['filename']
RECURSIVE InnerLoop(_, _, _, _)
InnerLoop(acc, category, a, i) ==
    IF i > Len(a) THEN Completed(acc)
    ELSE LET item == a[i] IN
         IF item.t # "dict" THEN Raised("TypeError", acc)
         ELSE IF ~HasKey(item, "name") THEN Raised("KeyError: 'name'", acc)
         ELSE IF ~HasKey(item, "filename") THEN Raised("KeyError: 'filename'", acc)
         ELSE InnerLoop(AppendItem(acc, item, category), category, a, i + 1)

\* the outer loop over data.items(), from entry k on
RECURSIVE OuterLoop(_, _, _)
OuterLoop(acc, kv, k) ==
    IF k > Len(kv) THEN Completed(acc)
    ELSE LET category == kv[k][1]
             its == kv[k][2]
         IN  IF its.t = "list"
             THEN LET r == InnerLoop(acc, category, its.a, 1)
                  IN  IF r.ok THEN OuterLoop(r.all_items, kv, k + 1) ELSE r
             ELSE OuterLoop(acc, kv, k + 1)

\* the body of the try block: open, json.load, the two loops
TryBody(f) ==
    IF f.st = "missing" THEN Raised("FileNotFoundError", <<>>)
    ELSE IF f.st = "denied" THEN Raised("PermissionError", <<>>)
    ELSE IF f.content.t = "invalid" THEN Raised("JSONDecodeError", <<>>)
    ELSE IF f.content.t # "dict" THEN Raised("AttributeError", <<>>)
    ELSE OuterLoop(<<>>, f.content.kv, 1)

\* a faulty variant of extract_first_100_items: the handler returns what was collected
extract_partial(f) ==
    LET r == TryBody(f)
    IN  [ret |-> r.all_items, ops |-> <<"read">>,
         lines |-> IF r.ok THEN <<>> ELSE <<"error: " \o r.exc>>]

\* the whole function: the list it returns, the one file operation it
\* attempts (open for reading, then json.load) and the lines it prints
extract_first_100_items(f) ==
    LET r == TryBody(f)
    IN  IF r.ok THEN [ret |-> r.all_items, ops |-> <<"read">>, lines |-> <<>>]
        ELSE [ret |-> <<>>, ops |-> <<"read">>,
              lines |-> <<"error: " \o r.exc>>]

(***************************************************************************)
(* generate_image_url                                                      *)
(***************************************************************************)
BaseUrl == "https://rtaicookbook.oss-cn-hongkong.aliyuncs.com/generated_images/"
ResizeSuffix == "?x-oss-process=image/resize,w_240"

\* how an f-string formats a value: a str is inserted as it is
Format(v) == IF v.t = "str" THEN v.s ELSE <<ToString(v.n)>>

\* a faulty variant of generate_image_url: the resize suffix is left out
generate_image_url_bare(filename) == <<BaseUrl>> \o Format(filename)

generate_image_url(filename) == <<BaseUrl>> \o Format(filename) \o <<ResizeSuffix>>

(***************************************************************************)
(* generate_html: the template.  The display text of the page (Chinese in  *)
(* the source) and the style sheet are abbreviated inside the tokens.      *)
(***************************************************************************)
HeadTok == "<!DOCTYPE html><html><head>..</head><body><div class=\"header\">..</div>"
StatsOpen == "<div class=\"stats\"><p>total <strong>"
StatsClose == "</strong> items</p></div>"
GalleryOpen == "<div class=\"gallery\">"
ItemOpen == "<div class=\"item\""
DelayOpen == " style=\"animation-delay: "
DelayClose == "s;\">"
ImgSrc == "<img src=\""
ImgAlt == "\" alt=\""
ImgRest == "\" loading=\"lazy\" onerror=\"..\">"
NameOpen == "<div class=\"item-name\">"
CategoryOpen == "<div class=\"item-category\">"
DivClose == "</div>"
ScriptOpen == "<script>"
ScriptBody == "..lazy loading..click to zoom.."
LogOpen == "console.log('gallery loaded, total "
LogBraces == "{len(items)}"
LogClose == " items');"
ScriptClose == "</script>"
BodyClose == "</body></html>"

\* every token of the template
MarkupTokens ==
    {HeadTok, StatsOpen, StatsClose, GalleryOpen, ItemOpen, DelayOpen, DelayClose,
     ImgSrc, ImgAlt, ImgRest, NameOpen, CategoryOpen, DivClose, ScriptOpen,
     ScriptBody, LogOpen, LogBraces, LogClose, ScriptClose, BodyClose}

\* the text of {i * 0.05}: Python's repr of the float product
DelayText(i) ==
    CASE i = 0 -> "0.0"
      [] i = 1 -> "0.05"
      [] i = 2 -> "0.1"
      [] i = 3 -> "0.15000000000000002"
      [] i = 4 -> "0.2"
      [] i = 5 -> "0.25"
      [] i = 6 -> "0.30000000000000004"
      [] i = 7 -> "0.35000000000000003"

\* a faulty variant of DocHead: the count shown is one less than len(items)
DocHeadOffByOne(total_count) ==
    <<HeadTok, StatsOpen, ToString(total_count - 1), StatsClose, GalleryOpen>>

\* the first f-string: everything up to the opening of the gallery
DocHead(total_count) ==
    <<HeadTok, StatsOpen, ToString(total_count), StatsClose, GalleryOpen>>

\* the f-string of the loop body, for the item at index i (from 0)
Card(i, item) ==
    <<ItemOpen, DelayOpen, DelayText(i), DelayClose, ImgSrc>>
    \o generate_image_url(item.filename)
    \o <<ImgAlt>> \o Format(item.name) \o <<ImgRest, NameOpen>>
    \o Format(item.name) \o <<DivClose, CategoryOpen>>
    \o Format(item.category) \o <<DivClose, DivClose>>

\* a faulty variant of Trailer: the last literal is an f-string, so the count is
\* interpolated into the console.log line
TrailerInterpolated(its) ==
    <<DivClose, ScriptOpen, ScriptBody, LogOpen, ToString(Len(its)), LogClose,
      ScriptClose, BodyClose>>

\* the last literal, which is not an f-string: {len(items)} stays as written.
\* The parameter is the item list in scope where the literal is evaluated.
Trailer(its) ==
    <<DivClose, ScriptOpen, ScriptBody, LogOpen, LogBraces, LogClose,
      ScriptClose, BodyClose>>

\* the for loop: html_content += card, from index i on
RECURSIVE CardLoop(_, _, _)
CardLoop(html, its, i) ==
    IF i >= Len(its) THEN html
    ELSE CardLoop(html \o Card(i, its[i + 1]), its, i + 1)

html_content(its) == CardLoop(DocHead(Len(its)), its, 0) \o Trailer(its)

MsgGenerated == "HTML file generated: ingredients_gallery.html"
MsgCount(n) == "contains " \o ToString(n) \o " items"

\* a faulty variant of generate_html: the file is opened in append mode
generate_html_append(its, old, can_open) ==
    IF can_open
    THEN [file |-> Content((IF old.st = "file" THEN old.content ELSE <<>>)
                           \o html_content(its)),
          exc |-> FALSE, ops |-> <<"write">>,
          lines |-> <<MsgGenerated, MsgCount(Len(its))>>]
    ELSE [file |-> old, exc |-> TRUE, ops |-> <<"write">>, lines |-> <<>>]

\* the whole function, on the output file in state old.  open(.., 'w') either
\* succeeds, and the file then holds html_content and nothing else, or
\* raises OSError before anything is written or printed.
generate_html(its, old, can_open) ==
    IF can_open
    THEN [file |-> Content(html_content(its)),
          exc |-> FALSE, ops |-> <<"write">>,
          lines |-> <<MsgGenerated, MsgCount(Len(its))>>]
    ELSE [file |-> old, exc |-> TRUE, ops |-> <<"write">>, lines |-> <<>>]

(***************************************************************************)
(* main                                                                    *)
(***************************************************************************)
MsgExtracting == "extracting all items..."
MsgExtracted(n) == "extracted " \o ToString(n) \o " items"
MsgGenerating == "generating HTML file..."
MsgDone == "done: open ingredients_gallery.html"
MsgFailed == "extraction failed"

\* a faulty variant of main: generate_html is called without the test `if items`
main_unguarded(jf, of, can_open) ==
    LET e == extract_first_100_items(jf)
        g == generate_html(e.ret, of, can_open)
    IN  [file |-> g.file, items |-> e.ret,
         status |-> IF g.exc THEN "raised" ELSE "returned",
         ops |-> e.ops \o g.ops,
         lines |-> <<MsgExtracting>> \o e.lines
                   \o <<MsgExtracted(Len(e.ret)), MsgGenerating>> \o g.lines
                   \o (IF g.exc THEN <<>> ELSE <<MsgDone>>)]

\* a faulty variant of main: the failure branch removes the output file
main_cleans(jf, of, can_open) ==
    LET e == extract_first_100_items(jf)
        g == generate_html(e.ret, of, can_open)
    IN  IF e.ret # <<>>
        THEN [file |-> g.file, items |-> e.ret,
              status |-> IF g.exc THEN "raised" ELSE "returned",
              ops |-> e.ops \o g.ops,
              lines |-> <<MsgExtracting>> \o e.lines
                        \o <<MsgExtracted(Len(e.ret)), MsgGenerating>> \o g.lines
                        \o (IF g.exc THEN <<>> ELSE <<MsgDone>>)]
        ELSE [file |-> Missing, items |-> e.ret, status |-> "returned",
              ops |-> e.ops,
              lines |-> <<MsgExtracting>> \o e.lines \o <<MsgFailed>>]

\* a faulty variant of main: a write that fails is attempted a second time
main_retry(jf, of, can_open) ==
    LET e == extract_first_100_items(jf)
        g == generate_html(e.ret, of, can_open)
    IN  IF e.ret # <<>>
        THEN [file |-> g.file, items |-> e.ret,
              status |-> IF g.exc THEN "raised" ELSE "returned",
              ops |-> e.ops \o g.ops \o (IF g.exc THEN g.ops ELSE <<>>),
              lines |-> <<MsgExtracting>> \o e.lines
                        \o <<MsgExtracted(Len(e.ret)), MsgGenerating>> \o g.lines
                        \o (IF g.exc THEN <<>> ELSE <<MsgDone>>)]
        ELSE [file |-> of, items |-> e.ret, status |-> "returned",
              ops |-> e.ops,
              lines |-> <<MsgExtracting>> \o e.lines \o <<MsgFailed>>]

\* one run of main on the two files: the output file afterwards, the list
\* extracted, how the run ended, the file operations attempted and the lines
\* printed.  generate_html is called only for a list that is not empty; an
\* OSError it raises is not caught and ends the run.
main(jf, of, can_open) ==
    LET e == extract_first_100_items(jf)
        g == generate_html(e.ret, of, can_open)
    IN  IF e.ret # <<>>
        THEN [file |-> g.file, items |-> e.ret,
              status |-> IF g.exc THEN "raised" ELSE "returned",
              ops |-> e.ops \o g.ops,
              lines |-> <<MsgExtracting>> \o e.lines
                        \o <<MsgExtracted(Len(e.ret)), MsgGenerating>> \o g.lines
                        \o (IF g.exc THEN <<>> ELSE <<MsgDone>>)]
        ELSE [file |-> of, items |-> e.ret, status |-> "returned",
              ops |-> e.ops,
              lines |-> <<MsgExtracting>> \o e.lines \o <<MsgFailed>>]

(***************************************************************************)
(* The inputs.                                                             *)
(***************************************************************************)
SeqsUpTo(S, n) == UNION {[1..m -> S] : m \in 0..n}

Apple == PyDict(<<<<"name", PyStr(<<"Apple">>)>>,
                  <<"filename", PyStr(<<"apple.jpg">>)>>>>)
Carrot == PyDict(<<<<"name", PyStr(<<"Carrot">>)>>,
                   <<"filename", PyStr(<<"carrot.jpg">>)>>>>)
NoName == PyDict(<<<<"filename", PyStr(<<"plum.jpg">>)>>>>)
NoFilename == PyDict(<<<<"name", PyStr(<<"Plum">>)>>>>)

\* the elements a list holds: two complete records, two records that lack
\* a key, and an element that is not a record at all
Elements == {Apple, Carrot, NoName, NoFilename, PyStr(<<"salt">>)}

Categories == {PyStr(<<"fruit">>), PyStr(<<"veg">>)}

\* what a category key holds: a list of elements, or something that is no list
Values == {PyList(a) : a \in SeqsUpTo(Elements, MaxList)} \cup {PyInt(650)}

\* the mappings: every ordered choice of distinct category keys, each with a value
Mappings ==
    {PyDict(kv) : kv \in
        {s \in SeqsUpTo(Categories \X Values, Cardinality(Categories)) :
            \A i, j \in 1..Len(s) : i # j => s[i][1] # s[j][1]}}

\* the states of the input file
InputFiles ==
    {Missing, Unreadable, Content(InvalidJson), Content(PyList(<<Apple>>))}
    \cup {Content(d) : d \in Mappings}

\* an item whose name holds markup: it closes the name and the card and opens
\* another card
TaggedName == <<"Egg", DivClose, DivClose, ItemOpen, DelayClose, NameOpen, "Ham">>

ItemPool ==
    {[name |-> PyStr(<<"Apple">>), filename |-> PyStr(<<"apple.jpg">>),
      category |-> PyStr(<<"fruit">>)],
     [name |-> PyStr(<<"Carrot">>), filename |-> PyStr(<<"carrot.jpg">>),
      category |-> PyStr(<<"veg">>)],
     [name |-> PyStr(TaggedName), filename |-> PyStr(<<"egg.jpg">>),
      category |-> PyStr(<<"dairy">>)]}

ItemLists == SeqsUpTo(ItemPool, MaxItems)

\* what the output file may hold before the program first runs
OldContent == <<"<html>an older page</html>">>

(***************************************************************************)
(* The calls.                                                              *)
(***************************************************************************)
NoCall ==
    /\ call = "none" /\ arg = <<>> /\ items = <<>>
    /\ status = "none" /\ ops = <<>> /\ stdout = <<>>

\* extract_first_100_items(json_file), called on its own
ExtractCall ==
    LET e == extract_first_100_items(json_file)
    IN  /\ call' = "extract_first_100_items"
        /\ items' = e.ret
        /\ stdout' = e.lines
        /\ ops' = e.ops
        /\ status' = "returned"
        /\ arg' = <<>>
        /\ UNCHANGED <<json_file, output_file>>

\* generate_html(its, output_file), called on its own
GenerateHtmlCall ==
    \E its \in ItemLists, can_open \in BOOLEAN :
        LET g == generate_html(its, output_file, can_open)
        IN  /\ call' = "generate_html"
            /\ arg' = its
            /\ output_file' = g.file
            /\ stdout' = g.lines
            /\ ops' = g.ops
            /\ status' = IF g.exc THEN "raised" ELSE "returned"
            /\ items' = <<>>
            /\ UNCHANGED json_file

\* one run of the program
Main ==
    \E can_open \in BOOLEAN :
        LET m == main(json_file, output_file, can_open)
        IN  /\ call' = "main"
            /\ items' = m.items
            /\ output_file' = m.file
            /\ stdout' = m.lines
            /\ ops' = m.ops
            /\ status' = m.status
            /\ arg' = <<>>
            /\ UNCHANGED json_file

\* between two runs the input file is removed
RemoveInput ==
    /\ call = "main"
    /\ json_file # Missing
    /\ json_file' = Missing
    /\ call' = "none" /\ arg' = <<>> /\ items' = <<>>
    /\ status' = "none" /\ ops' = <<>> /\ stdout' = <<>>
    /\ UNCHANGED output_file

(***************************************************************************)
(* The specifications: the extractor alone, the renderer alone, and runs  *)
(* of the program.                                                         *)
(***************************************************************************)
InitExtract ==
    /\ json_file \in InputFiles
    /\ output_file = Missing
    /\ NoCall

NextExtract == ExtractCall

SpecExtract == InitExtract /\ [][NextExtract]_vars

InitRender ==
    /\ json_file = Missing
    /\ output_file \in {Missing, Content(OldContent)}
    /\ NoCall

NextRender == GenerateHtmlCall

SpecRender == InitRender /\ [][NextRender]_vars

Init ==
    /\ json_file \in InputFiles
    /\ output_file \in {Missing, Content(OldContent)}
    /\ NoCall

Next == Main \/ RemoveInput

Spec == Init /\ [][Next]_vars

(***************************************************************************)
(* Reading a document back: the card elements of a text and their parts.   *)
(***************************************************************************)
Positions(doc, tok) == {p \in 1..Len(doc) : doc[p] = tok}

\* the number of card elements: the opening tags <div class="item"
NumCards(doc) == Cardinality(Positions(doc, ItemOpen))

\* the text of the i-th card element: from its opening tag to the next one
CardText(doc, i) ==
    LET P == Positions(doc, ItemOpen)
        nth(n) == CHOOSE p \in P : Cardinality({q \in P : q < p}) = n - 1
    IN  SubSeq(doc, nth(i), IF i < Cardinality(P) THEN nth(i + 1) - 1 ELSE Len(doc))

NotFound == <<"(not found)">>

\* the text between the first token open of t and the first token close after it
Between(t, open, close) ==
    LET O == Positions(t, open)
    IN  IF O = {} THEN NotFound
        ELSE LET q == CHOOSE x \in O : \A y \in O : x <= y
                 C == {r \in Positions(t, close) : r > q}
             IN  IF C = {} THEN NotFound
                 ELSE SubSeq(t, q + 1, (CHOOSE x \in C : \A y \in C : x <= y) - 1)

\* the count the stats block shows, -1 when it shows no number
HeaderCount(doc) ==
    LET t == Between(doc, StatsOpen, StatsClose)
        N == {n \in 0..Len(doc) : t = <<ToString(n)>>}
    IN  IF N = {} THEN -1 ELSE CHOOSE n \in N : TRUE

\* a value with no token of the markup in it, that is, without the characters
\* that HTML gives a meaning to
Plain(v) == \A i \in 1..Len(Format(v)) : Format(v)[i] \notin MarkupTokens
PlainItems(its) ==
    \A i \in 1..Len(its) :
        Plain(its[i].name) /\ Plain(its[i].filename) /\ Plain(its[i].category)

\* one card per item, in the order of the list, the i-th showing the i-th
\* item's name and category and loading base URL + filename + resize suffix
CardsMatch(doc, its) ==
    /\ NumCards(doc) = Len(its)
    /\ \A i \in 1..Len(its) :
        LET c == CardText(doc, i)
        IN  /\ Between(c, ImgSrc, ImgAlt)
                  = <<BaseUrl>> \o Format(its[i].filename)
                    \o <<"?x-oss-process=image/resize,w_240">>
            /\ Between(c, NameOpen, DivClose) = Format(its[i].name)
            /\ Between(c, CategoryOpen, DivClose) = Format(its[i].category)

Wrote == call = "generate_html" /\ status = "returned"

(***************************************************************************)
(* The extractor (SpecExtract).                                            *)
(***************************************************************************)
IsRecord(el) == el.t = "dict" /\ HasKey(el, "name") /\ HasKey(el, "filename")

\* the input is a mapping whose lists hold only elements with both keys
WellFormed(f) ==
    /\ f.st = "file"
    /\ f.content.t = "dict"
    /\ \A k \in 1..Len(f.content.kv) :
          f.content.kv[k][2].t = "list" =>
              \A j \in 1..Len(f.content.kv[k][2].a) : IsRecord(f.content.kv[k][2].a[j])

ListLen(v) == IF v.t = "list" THEN Len(v.a) ELSE 0

\* the number of list elements under the keys before the k-th
RECURSIVE Offset(_, _)
Offset(kv, k) == IF k <= 1 THEN 0 ELSE Offset(kv, k - 1) + ListLen(kv[k - 1][2])

Extracted == call = "extract_first_100_items"

C3_FailureReturnsEmpty ==
    (Extracted /\ ~WellFormed(json_file)) =>
        /\ items = <<>>
        /\ status = "returned"
        /\ Len(stdout) = 1

\* an element without a name follows complete elements of this and of an
\* earlier category, and nothing was returned
C3_Witness ==
    /\ Extracted
    /\ json_file.st = "file" /\ json_file.content.t = "dict"
    /\ Len(json_file.content.kv) = 2
    /\ json_file.content.kv[1][2] = PyList(<<Apple>>)
    /\ json_file.content.kv[2][2] = PyList(<<Carrot, NoName>>)
    /\ items = <<>>

(***************************************************************************)
(* The renderer (SpecRender).                                              *)
(***************************************************************************)
\* C2 as stated: for any item list the written document has exactly one card
\* element per item, in order, each showing its item's name, category and URL.
C2_AnyItemList == Wrote => CardsMatch(output_file.content, arg)

\* C2 amended: the same for every item list whose names, filenames and
\* categories hold no markup.
C2_PlainItemList ==
    (Wrote /\ PlainItems(arg)) => CardsMatch(output_file.content, arg)

\* two different plain items were rendered
C2_Witness ==
    /\ Wrote /\ PlainItems(arg)
    /\ Len(arg) = 2 /\ arg[1] # arg[2]
    /\ NumCards(output_file.content) = 2

\* C7 as stated: the count in the stats block is the length of the item list
\* and the number of card elements of the document.
C7_CountIsCards ==
    Wrote => /\ HeaderCount(output_file.content) = Len(arg)
             /\ HeaderCount(output_file.content) = NumCards(output_file.content)

\* C7 amended: the count in the stats block is the length of the item list,
\* and it is the number of card elements when no item value holds markup.
C7_CountIsLength ==
    Wrote => /\ HeaderCount(output_file.content) = Len(arg)
             /\ PlainItems(arg) =>
                    HeaderCount(output_file.content) = NumCards(output_file.content)

\* a list of two items was rendered and the stats block shows 2
C7_Witness ==
    /\ Wrote /\ PlainItems(arg)
    /\ HeaderCount(output_file.content) = 2
    /\ Len(arg) = 2

\* C8: after generate_html has written the document of an item list, calling
\* it again with that list leaves the same document, whether the file then
\* is absent, holds an older page, the document of another list, or the
\* document itself: what is written depends on the item list alone.
C8_SameListSameDocument ==
    Wrote =>
        \A old \in {Missing, Content(OldContent), output_file}
                   \cup {Content(html_content(x)) : x \in ItemLists} :
            generate_html(arg, old, TRUE).file = output_file

\* a non-empty list was rendered and the file holds one document, its own
C8_Witness ==
    /\ Wrote /\ Len(arg) >= 1
    /\ output_file.st = "file"
    /\ HeaderCount(output_file.content) = Len(arg)
    /\ Positions(output_file.content, HeadTok) = {1}

\* the text of the document that follows the head and the cards of the list
AfterCards(doc, its) ==
    SubSeq(doc, Len(CardLoop(DocHead(Len(its)), its, 0)) + 1, Len(doc))

\* C10: what follows the last card is the same text for every item list, the
\* text that follows the head of the empty list's document: neither the count
\* nor an item value is in it.
C10_FixedTrailer ==
    Wrote =>
        LET tail == AfterCards(output_file.content, arg)
        IN  /\ tail = AfterCards(html_content(<<>>), <<>>)
            /\ \A i \in 1..Len(tail) : tail[i] \in MarkupTokens

\* a list of two items, one with markup in its name, was rendered
C10_Witness ==
    /\ Wrote /\ Len(arg) = 2 /\ ~PlainItems(arg)
    /\ Len(AfterCards(output_file.content, arg)) > 0

(***************************************************************************)
(* Runs of the program (Spec).                                             *)
(***************************************************************************)
Ran == call = "main"
ReportsFailure == stdout # <<>> /\ stdout[Len(stdout)] = MsgFailed

\* C4: a run on a missing or unreadable input file reports failure, attempts
\* no write and leaves the output file, present or absent, as it was.
C4_MissingInputWritesNothing ==
    [][(call' = "main" /\ json_file \in {Missing, Unreadable}) =>
          /\ output_file' = output_file
          /\ ops' = <<"read">>
          /\ status' = "returned"
          /\ stdout'[Len(stdout')] = MsgFailed
          /\ \A i \in 1..Len(stdout') : stdout'[i] \notin {MsgGenerating, MsgGenerated}
      ]_vars

\* the input is missing, the run has failed, and the older page is still there
C4_Witness ==
    /\ Ran /\ json_file = Missing
    /\ ReportsFailure
    /\ output_file = Content(OldContent)

\* C5 as stated: after any run the output file holds exactly the document
\* rendered by that run.
C5_EveryRunOverwrites == Ran => output_file = Content(html_content(items))

\* C5 amended: after a run that extracted at least one record and whose write
\* succeeded, the output file holds exactly the document of the extracted
\* list, with nothing of what it held before.
C5_WritingRunOverwrites ==
    (Ran /\ items # <<>> /\ status = "returned") =>
        /\ output_file = Content(html_content(items))
        /\ Positions(output_file.content, OldContent[1]) = {}
        /\ Positions(output_file.content, HeadTok) = {1}

\* a run has extracted two records or more and written their document
C5_Witness ==
    /\ Ran /\ Len(items) >= 2 /\ status = "returned"
    /\ output_file.st = "file"
    /\ NumCards(output_file.content) = Len(items)

\* C6 as stated: every run performs one read and then one write.
C6_ReadThenWrite == Ran => ops = <<"read", "write">>

\* C6 amended: every run attempts the read of the input file once; it then
\* attempts the write of the output file once when the extraction returned at
\* least one record, and not at all otherwise; nothing is attempted twice.
C6_ReadThenWriteIfItems ==
    Ran => ops = IF items # <<>> THEN <<"read", "write">> ELSE <<"read">>

\* a run whose write failed has ended, and the write was attempted once
C6_Witness ==
    /\ Ran /\ status = "raised"
    /\ items # <<>>
    /\ ops = <<"read", "write">>

\* the input parses into a mapping that yields no record
ParsesToNothing(f) ==
    WellFormed(f) /\ Offset(f.content.kv, Len(f.content.kv) + 1) = 0

\* C9: a run on an input that parses but yields no record ends as a run on a
\* missing input does: it prints the failure message, attempts no write and
\* leaves the output file as it was.
C9_EmptyInputIsFailure ==
    [][(call' = "main" /\ ParsesToNothing(json_file)) =>
          /\ output_file' = output_file
          /\ ops' = <<"read">>
          /\ items' = <<>>
          /\ status' = "returned"
          /\ stdout' = <<MsgExtracting, MsgFailed>>
          /\ stdout'[Len(stdout')]
                = main(Missing, output_file, TRUE).lines[
                      Len(main(Missing, output_file, TRUE).lines)]
      ]_vars

\* a mapping of a non-list value and an empty list was run on, and failed
C9_Witness ==
    /\ Ran /\ ParsesToNothing(json_file)
    /\ Len(json_file.content.kv) = 2
    /\ \E k \in 1..2 : json_file.content.kv[k][2] = PyList(<<>>)
    /\ \E k \in 1..2 : json_file.content.kv[k][2].t # "list"
    /\ ReportsFailure
    /\ output_file = Missing

====
